---- MODULE Spec2Model ----
(***************************************************************************)
(* Model of src/concepts_vs_polymorphism_bm.cpp: the workload kernel       *)
(* impl::doAcceleration, the two generic-dispatch vehicles, the two        *)
(* virtual-dispatch vehicles, the two benchmark drivers and main.          *)
(*                                                                         *)
(* Numbers.  The program computes in IEEE doubles.  The model computes in  *)
(* decimal fixed point on 32-bit integers (the width of TLC's integers):   *)
(*   speed, s, the friction constants     scale 10^5, one word             *)
(*   sin, cos                             scale 10^8, one word             *)
(*   tan, calculations[i]                 scale 10^7, one word             *)
(*   sqrt                                 scale 10^6, one word             *)
(*   work, total_work, the averages       scale 10^5, two words <<hi, lo>> *)
(*                                        of base 10^9, or NaN             *)
(* sin, cos, tan and sqrt are computed (range reduction, Taylor series,    *)
(* rotation, Newton's iteration), never assumed.                           *)
(*                                                                         *)
(* class Vehicle declares brake() twice (lines 103 and 104); the model     *)
(* reads the class with the one pure virtual brake() that both lines       *)
(* declare.                                                                *)
(***************************************************************************)
EXTENDS Integers, Sequences, FiniteSets, TLC

----------------------------------------------------------------------------
(* Fixed-point arithmetic *)

Scale5 == 100000
Scale8 == 10000 * 10000
Base == 1000 * 1000 * 1000

Abs(x) == IF x < 0 THEN -x ELSE x

Sgn(x) == IF x < 0 THEN -1 ELSE 1

\* a / b rounded to the nearest integer, b > 0, |a| < 10^9.
RDiv(a, b) == (2 * a + b) \div (2 * b)

\* a * b / 10^8 rounded, for |a|, |b| <= 10^9: the product of two scale-10^8
\* numbers, or of a scale-10^8 and a scale-10^k number (the result has scale
\* 10^k).  The operands are split in words of 10^4 (the high word carries the
\* sign) so that no intermediate value leaves 32 bits.
MulFix(a, b) ==
    LET a1 == a \div 10000
        a0 == a % 10000
        b1 == b \div 10000
        b0 == b % 10000
    IN a1 * b1
         + (a1 * b0 + a0 * b1 + (a0 * b0) \div 10000 + 5000) \div 10000

\* The first `digits` decimal digits of a / b after its integer part, as the
\* integer floor(a * 10^digits / b); a >= 0, 0 < b <= 2 * 10^8.
RECURSIVE LongDiv(_, _, _, _)
LongDiv(q, rem, b, digits) ==
    IF digits = 0 THEN q
    ELSE LongDiv(q * 10 + (rem * 10) \div b, (rem * 10) % b, b, digits - 1)

\* floor(sqrt(n)), n >= 0.
RECURSIVE ISqrt(_)
ISqrt(n) ==
    IF n < 2 THEN n
    ELSE LET s == 2 * ISqrt(n \div 4)
         IN IF (s + 1) * (s + 1) > n THEN s ELSE s + 1

\* std::sqrt(x) at scale 10^6 for x = n / 100, 0 <= n <= 2 * 10^6:
\* a = floor(sqrt(1000 n)), one Newton step a + (1000 n - a^2) / (2 a) at
\* scale 10^4, and the factor 10^5 / sqrt(1000) = 3162.2777.
Sqrt6(n) ==
    IF n = 0 THEN 0
    ELSE LET a == ISqrt(n * 1000)
             d == n * 1000 - a * a
         IN MulFix(a * 10000 + (d * 10000) \div (2 * a), 31622777)

\* 2 pi at scale 10^8.
TwoPi8 == 628318531

\* An angle v5 (scale 10^5, 0 <= v5 < 2^31) reduced to [0, 2 pi) at scale 10^8.
Reduce(v5) ==
    LET q == v5 \div 628319
        r == (v5 - q * 628318) * 1000 - (q * 530718) \div 1000
    IN IF r >= TwoPi8 THEN r - TwoPi8 ELSE r

\* sin(x) and cos(x) for |x| <= pi / 4, all at scale 10^8: the Taylor series
\* to x^11 and x^12, in Horner form.
RECURSIVE Horner(_, _, _)
Horner(x2, t, ds) ==
    IF ds = <<>> THEN t
    ELSE Horner(x2, Scale8 - RDiv(MulFix(x2, t), Head(ds)), Tail(ds))

SinSmall(x) == MulFix(x, Horner(MulFix(x, x), Scale8, <<110, 72, 42, 20, 6>>))

CosSmall(x) == Horner(MulFix(x, x), Scale8, <<132, 90, 56, 30, 12, 2>>)

\* <<sin(r), cos(r)>> for r in [0, 2 pi] at scale 10^8: r = k * pi/2 + y with
\* |y| <= pi / 4.
SinCos(r) ==
    LET k == (r + 78539816) \div 157079633
        y == r - (k * 157079632 + (k * 679) \div 1000)
        s == SinSmall(y)
        c == CosSmall(y)
    IN CASE k % 4 = 0 -> <<s, c>>
         [] k % 4 = 1 -> <<c, -s>>
         [] k % 4 = 2 -> <<-s, -c>>
         [] OTHER -> <<-c, s>>

\* <<sin(a + b), cos(a + b)>> from <<sin a, cos a>> and <<sin b, cos b>>.
Rot(a, b) ==
    <<MulFix(a[1], b[2]) + MulFix(a[2], b[1]),
      MulFix(a[2], b[2]) - MulFix(a[1], b[1])>>

\* <<sincos(0), sincos(t), ..., sincos((n - 1) t)>> from step = sincos(t):
\* the first half, then the first half turned by half the table.
RECURSIVE RotTable(_, _)
RotTable(step, n) ==
    IF n = 1 THEN << <<0, Scale8>> >>
    ELSE LET h == (n + 1) \div 2
             t == RotTable(step, h)
             half == Rot(t[h], step)
         IN t \o [k \in 1 .. (n - h) |-> Rot(half, t[k])]

\* The sines and cosines of the multiples 0 .. 9999 of an angle v5 (scale
\* 10^5, v5 <= 2 * 10^7): sincos(k v) = Rot(hi[k \div 100], lo[k % 100]).
Angles(v5) ==
    [lo |-> RotTable(SinCos(Reduce(v5)), 100),
     hi |-> RotTable(SinCos(Reduce(v5 * 100)), 100)]

SinAt(ang, k) ==
    LET h == ang.hi[(k \div 100) + 1]
        l == ang.lo[(k % 100) + 1]
    IN MulFix(h[1], l[2]) + MulFix(h[2], l[1])

CosAt(ang, k) ==
    LET h == ang.hi[(k \div 100) + 1]
        l == ang.lo[(k % 100) + 1]
    IN MulFix(h[2], l[2]) - MulFix(h[1], l[1])

\* std::tan(v) at scale 10^7 (|tan v| < 200).
Tan7(v5) ==
    LET sc == SinCos(Reduce(v5))
    IN Sgn(sc[1]) * Sgn(sc[2])
         * LongDiv(Abs(sc[1]) \div Abs(sc[2]), Abs(sc[1]) % Abs(sc[2]),
                   Abs(sc[2]), 7)

----------------------------------------------------------------------------
(* double values that outgrow one word: work, total_work and the averages *)

\* The double hi * 10^9 + lo at scale 10^5, 0 <= lo < 10^9 (hi carries the sign).
Num(hi, lo) == [nan |-> FALSE, hi |-> hi, lo |-> lo]

NaN == [nan |-> TRUE, hi |-> 0, lo |-> 0]

Zero == Num(0, 0)

\* A one-word scale-10^5 number as a double.
FromFix(n) == Num(n \div Base, n % Base)

\* a + b; NaN when an operand is.
DAdd(a, b) ==
    IF a.nan \/ b.nan THEN NaN
    ELSE Num(a.hi + b.hi + (a.lo + b.lo) \div Base, (a.lo + b.lo) % Base)

\* a < b as the program's < and > decide it: false when an operand is NaN.
DLess(a, b) ==
    /\ ~a.nan
    /\ ~b.nan
    /\ a.hi < b.hi \/ (a.hi = b.hi /\ a.lo < b.lo)

\* std::isfinite(a): the model's numbers never overflow to an infinity.
IsFinite(a) == ~a.nan

\* a / n for an integer 0 < n <= 2 * 10^6: long division, the low word in
\* three digits of base 1000.
DDiv(a, n) ==
    IF a.nan THEN NaN
    ELSE LET t2 == (a.hi % n) * 1000 + a.lo \div 1000000
             t1 == (t2 % n) * 1000 + ((a.lo \div 1000) % 1000)
             t0 == (t1 % n) * 1000 + (a.lo % 1000)
         IN Num(a.hi \div n,
                (t2 \div n) * 1000000 + (t1 \div n) * 1000 + t0 \div n)

\* a * b for scale-10^5 numbers a (|a| <= 10^9) and b (0 <= b <= 10^5).
Mul5(a, b) == MulFix(a, b * 1000)

----------------------------------------------------------------------------
(* namespace constants *)

VECTOR_SIZE == 10000
INNER_LOOP_COUNT == 10
BENCHMARK_ITERATIONS == 10000
\* 0.1 at scale 10^5.
MIN_TIME == 10000
\* 50.0, 0.85 and 0.95 at scale 10^5.
ACCELERATION_VALUE == 5000000
ELECTRIC_FRICTION == 85000
GAS_FRICTION == 95000

----------------------------------------------------------------------------
(* impl::doAcceleration *)

\* std::vector<double> calculations(VECTOR_SIZE): VECTOR_SIZE zeros.  The
\* buffer is held by what determines its contents: `fill` is <<>> while every
\* element is the 0.0 of construction, and <<v>> once a kernel call at speed v
\* has overwritten every element; CalcValue gives the element at an index.
NewBuffer == [size |-> VECTOR_SIZE, fill |-> <<>>]

\* std::sin(speed * i) * std::cos(i * 0.5) * std::tan(speed), the value line
\* 29 stores in calculations[i], at scale 10^7.  ctx holds what depends on
\* the speed alone.
KernelCtx(v5) == [ang |-> Angles(v5), tan |-> Tan7(v5)]

\* The multiples of the angle 0.5 of std::cos(i * 0.5).
HalfAngles == Angles(50000)

CalcValue(ctx, k) ==
    MulFix(MulFix(SinAt(ctx.ang, k), CosAt(HalfAngles, k)), ctx.tan)

\* The faulty variant of Term that subtracts where line 30 adds.
TermNegated(ctx, v5, k) ==
    -MulFix(CalcValue(ctx, k), Sqrt6(v5 \div 1000 + 100 * k))

\* calculations[k] * std::sqrt(speed + k), the amount line 30 adds to work,
\* at scale 10^5.
Term(ctx, v5, k) == MulFix(CalcValue(ctx, k), Sqrt6(v5 \div 1000 + 100 * k))

\* The sum of the terms lo .. hi.  Fixed-point addition is exact, so the order
\* of the additions (the loop's is ascending) does not change the sum.
RECURSIVE SumTerms(_, _, _, _)
SumTerms(ctx, v5, lo, hi) ==
    IF lo = hi THEN Term(ctx, v5, lo)
    ELSE SumTerms(ctx, v5, lo, (lo + hi) \div 2)
           + SumTerms(ctx, v5, (lo + hi) \div 2 + 1, hi)

\* What one run of the loop of lines 28-31 adds to work when the values
\* multiplied by the square roots are those of a buffer filled at speed b5.
\* tan(b5) = 0 makes every element 0.
LoopSum(b5, v5) ==
    IF Tan7(b5) = 0 THEN 0
    ELSE SumTerms(KernelCtx(b5), v5, 0, VECTOR_SIZE - 1)

\* Bounds of the call sequences of OpsSpec: the number of calls, and the
\* largest speed (in whole units) an accelerate may reach.
MaxCalls == 4
MaxSpeed == 100

\* The speeds, as multiples of the driver's three, at which the
\* specifications run the kernel on a buffer it has just filled.
KernelSpeeds ==
    {v \in {k * Mul5(ACCELERATION_VALUE, f) :
              k \in 1 .. MaxCalls, f \in {Scale5, ELECTRIC_FRICTION, GAS_FRICTION}} :
       v <= MaxSpeed * Scale5}

\* LoopSum at those speeds, evaluated once.
KernelTable == [v \in KernelSpeeds |-> LoopSum(v, v)]

CachedLoopSum(b5, v5) ==
    IF b5 = v5 /\ v5 \in KernelSpeeds THEN KernelTable[v5] ELSE LoopSum(b5, v5)

\* The double the loop adds to work, reading the buffer `buf`: NaN when speed
\* is negative (std::sqrt(speed + 0) is NaN and 0.0 * NaN is NaN), 0.0 when
\* every element is 0.0.
Accumulated(buf, speed) ==
    IF speed < 0 THEN NaN
    ELSE IF buf.fill = <<>> THEN Zero
    ELSE FromFix(CachedLoopSum(buf.fill[1], speed))

\* The faulty variant of doAcceleration that adds calculations[i] *
\* sqrt(speed + i) before it stores calculations[i].
doAccelerationStale(speed, work, calculations) ==
    CHOOSE result \in
      {[work |-> DAdd(work, added),
        calculations |-> [calculations EXCEPT !.fill = <<speed>>]] :
         added \in {Accumulated(calculations, speed)}} : TRUE

\* impl::doAcceleration(speed, work, calculations): each pass of the loop
\* stores calculations[i] (line 29) and then adds calculations[i] *
\* sqrt(speed + i) to work (line 30); VECTOR_SIZE passes overwrite the whole
\* buffer.  The result is the new work and the new buffer.  The written
\* buffer and the amount added are each bound as the one element of a set,
\* and so evaluated once.
doAcceleration(speed, work, calculations) ==
    CHOOSE result \in
      UNION {{[work |-> DAdd(work, added), calculations |-> written] :
                added \in {Accumulated(written, speed)}} :
             written \in {[calculations EXCEPT !.fill = <<speed>>]}} : TRUE

----------------------------------------------------------------------------
(* The generic-dispatch vehicles *)

ElectricSportsCar(b, m) ==
    [class |-> "ElectricSportsCar", speed |-> 0, work |-> Zero,
     calculations |-> NewBuffer, brand |-> b, model |-> m]

\* The faulty variant of ElectricSportsCar::accelerate that subtracts s from speed.
ElectricSportsCar_accelerateReverse(self, s) ==
    CHOOSE after \in
      {[self EXCEPT !.speed = self.speed - s, !.work = r.work,
                    !.calculations = r.calculations] :
         r \in {doAcceleration(self.speed - s, self.work,
                               self.calculations)}} : TRUE

\* speed += s; impl::doAcceleration(speed, work, calculations).  r, the
\* result of the call, is bound as the one element of a set, and so
\* evaluated once.
ElectricSportsCar_accelerate(self, s) ==
    CHOOSE after \in
      {[self EXCEPT !.speed = self.speed + s, !.work = r.work,
                    !.calculations = r.calculations] :
         r \in {doAcceleration(self.speed + s, self.work,
                               self.calculations)}} : TRUE

ElectricSportsCar_brake(self) == [self EXCEPT !.speed = 0]

GasSportsCar(b, m) ==
    [class |-> "GasSportsCar", speed |-> 0, work |-> Zero,
     calculations |-> NewBuffer, brand |-> b, model |-> m]

\* The faulty variant of GasSportsCar::accelerate that scales s by GAS_FRICTION, as
\* the virtual-dispatch Gas vehicle does.
GasSportsCar_accelerateScaled(self, s) ==
    CHOOSE after \in
      {[self EXCEPT !.speed = self.speed + Mul5(s, GAS_FRICTION),
                    !.work = r.work, !.calculations = r.calculations] :
         r \in {doAcceleration(self.speed + Mul5(s, GAS_FRICTION), self.work,
                               self.calculations)}} : TRUE

GasSportsCar_accelerate(self, s) ==
    CHOOSE after \in
      {[self EXCEPT !.speed = self.speed + s, !.work = r.work,
                    !.calculations = r.calculations] :
         r \in {doAcceleration(self.speed + s, self.work,
                               self.calculations)}} : TRUE

\* The faulty variant of GasSportsCar::brake that leaves the speed as it is.
GasSportsCar_brakeCoast(self) == self

GasSportsCar_brake(self) == [self EXCEPT !.speed = 0]

----------------------------------------------------------------------------
(* The virtual-dispatch vehicles *)

PolyElectricCar ==
    [class |-> "PolyElectricCar", speed |-> 0, work |-> Zero,
     calculations |-> NewBuffer]

PolyGasCar ==
    [class |-> "PolyGasCar", speed |-> 0, work |-> Zero,
     calculations |-> NewBuffer]

PolyElectricCar_getFriction == ELECTRIC_FRICTION

PolyGasCar_getFriction == GAS_FRICTION

\* The virtual call getFriction().
getFriction(self) ==
    IF self.class = "PolyElectricCar" THEN PolyElectricCar_getFriction
    ELSE PolyGasCar_getFriction

\* speed += s * getFriction(); impl::doAcceleration(speed, work,
\* calculations).
PolyVehicle_accelerate(self, s) ==
    CHOOSE after \in
      {[self EXCEPT !.speed = r.speed, !.work = r.work,
                    !.calculations = r.calculations] :
         r \in {[speed |-> speed] @@ doAcceleration(speed, self.work,
                                                    self.calculations) :
                  speed \in {self.speed + Mul5(s, getFriction(self))}}} : TRUE

getCurrentSpeed(self) == self.speed

\* The faulty variant of PolyElectricCar::brake that zeroes speed before it adds
\* speed * ELECTRIC_FRICTION to work.
PolyElectricCar_brakeStopFirst(self) ==
    [self EXCEPT !.work = DAdd(self.work, FromFix(Mul5(0, ELECTRIC_FRICTION))),
                 !.speed = 0]

PolyElectricCar_brake(self) ==
    [self EXCEPT
       !.work = DAdd(self.work, FromFix(Mul5(self.speed, ELECTRIC_FRICTION))),
       !.speed = 0]

\* The faulty variant of PolyGasCar::brake that leaves the speed as it is.
PolyGasCar_brakeCoast(self) == self

PolyGasCar_brake(self) == [self EXCEPT !.speed = 0]

----------------------------------------------------------------------------
(* Calls through the variant (std::get) and through Vehicle* (virtual) *)

accelerate(self, s) ==
    CASE self.class = "ElectricSportsCar" -> ElectricSportsCar_accelerate(self, s)
      [] self.class = "GasSportsCar" -> GasSportsCar_accelerate(self, s)
      [] OTHER -> PolyVehicle_accelerate(self, s)

brake(self) ==
    CASE self.class = "ElectricSportsCar" -> ElectricSportsCar_brake(self)
      [] self.class = "GasSportsCar" -> GasSportsCar_brake(self)
      [] self.class = "PolyElectricCar" -> PolyElectricCar_brake(self)
      [] OTHER -> PolyGasCar_brake(self)

getWork(self) == self.work

----------------------------------------------------------------------------
(* The concepts Acceleratable and SportsCar *)

\* A type, as far as the two concepts look at it: for each member function
\* the type it returns, or "absent"; for accelerate also the type of its
\* parameter ("double": callable with a double).
ReturnTypes == {"void", "double", "std::string"}

Types ==
    [accelerate : ReturnTypes \cup {"absent"},
     accelerate_arg : {"double", "std::string"},
     brake : ReturnTypes \cup {"absent"},
     getWork : ReturnTypes \cup {"absent"},
     getBrand : ReturnTypes \cup {"absent"},
     getModel : ReturnTypes \cup {"absent"}]

\* The member functions ElectricSportsCar and GasSportsCar declare.
ElectricSportsCarType ==
    [accelerate |-> "void", accelerate_arg |-> "double", brake |-> "void",
     getWork |-> "double", getBrand |-> "std::string",
     getModel |-> "std::string"]

GasSportsCarType ==
    [accelerate |-> "void", accelerate_arg |-> "double", brake |-> "void",
     getWork |-> "double", getBrand |-> "std::string",
     getModel |-> "std::string"]

\* The faulty variant of Acceleratable that forgets the requirement on getWork.
AcceleratableNoGetWork(T) ==
    /\ T.accelerate = "void" /\ T.accelerate_arg = "double"
    /\ T.brake = "void"

\* requires(T v, double s): each expression must be valid and its type the
\* same as (std::same_as) the one named.
Acceleratable(T) ==
    /\ T.accelerate = "void" /\ T.accelerate_arg = "double"
    /\ T.brake = "void"
    /\ T.getWork = "double"

SportsCar(T) ==
    /\ Acceleratable(T)
    /\ T.getBrand = "std::string"
    /\ T.getModel = "std::string"

----------------------------------------------------------------------------
(* State *)

Benchmarks == <<"ConceptBased", "Polymorphic">>

BenchmarkNames == {Benchmarks[n] : n \in 1 .. Len(Benchmarks)}

VARIABLES
    phase,       \* of each benchmark: not_started, measuring, reporting, stopped
    at,          \* the statement the running benchmark executes next
    i,           \* the inner loop's counter
    iterations,  \* of each benchmark: the measured iterations completed
    vehicles,    \* of each benchmark: <<tesla, porsche>>, the two vehicles
    total_work,  \* of each benchmark: its local total_work
    counters,    \* of each benchmark: state.counters
    label,       \* of each benchmark: the label set by SetLabel
    hist,        \* of each benchmark: the calls made so far, by kind
    last,        \* the last call made: <<benchmark, vehicle, operation>>
    candidate,   \* the type offered to the concepts
    verdict      \* of each concept: unchecked, satisfied, error

vars ==
    <<phase, at, i, iterations, vehicles, total_work, counters, label, hist,
      last, candidate, verdict>>

\* The locals tesla and porsche of the two benchmark functions.
NewVehicles ==
    [b \in BenchmarkNames |->
       IF b = "ConceptBased"
       THEN <<ElectricSportsCar("Tesla", "Model S"),
              GasSportsCar("Porsche", "911")>>
       ELSE <<PolyElectricCar, PolyGasCar>>]

NoCalls ==
    [accelerate |-> <<0, 0>>, getWork |-> <<0, 0>>, brake |-> <<0, 0>>,
     clobber |-> 0, report |-> 0]

\* What main registers: RegisterBenchmark(...)->Unit(kMillisecond)
\* ->UseRealTime()->MinTime(MIN_TIME)->Iterations(BENCHMARK_ITERATIONS).
Registered ==
    [b \in BenchmarkNames |->
       [unit |-> "kMillisecond", real_time |-> TRUE, min_time |-> MIN_TIME,
        iterations |-> BENCHMARK_ITERATIONS]]

Init ==
    /\ phase = [b \in BenchmarkNames |-> "not_started"]
    /\ at = <<"none", 0>>
    /\ i = 0
    /\ iterations = [b \in BenchmarkNames |-> 0]
    /\ vehicles = NewVehicles
    /\ total_work = [b \in BenchmarkNames |-> Zero]
    /\ counters = [b \in BenchmarkNames |-> <<>>]
    /\ label = [b \in BenchmarkNames |-> <<>>]
    /\ hist = [b \in BenchmarkNames |-> NoCalls]
    /\ last = <<>>
    /\ candidate = ElectricSportsCarType
    /\ verdict = [c \in {"Acceleratable", "SportsCar"} |-> "unchecked"]

----------------------------------------------------------------------------
(* The benchmark functions BM_ConceptBased and BM_Polymorphic, run by the   *)
(* harness.  Both have the same statements; the vehicles differ.            *)

\* The faulty variant of the measured loop that stops after one iteration.
LoopEntryOnce(b, done) ==
    IF done < 1
    THEN IF 0 < INNER_LOOP_COUNT THEN <<"accelerate", 1>> ELSE <<"clobber", 0>>
    ELSE <<"report", 0>>

\* Where `for (auto _ : state)` goes when `done` iterations are complete:
\* into the body (whose inner loop starts at i = 0) or past the loop.
LoopEntry(b, done) ==
    IF done < Registered[b].iterations
    THEN IF 0 < INNER_LOOP_COUNT THEN <<"accelerate", 1>> ELSE <<"clobber", 0>>
    ELSE <<"report", 0>>

\* benchmark::RunSpecifiedBenchmarks() calls the registered functions in the
\* order of registration, one at a time.  The function constructs its
\* vehicles, sets total_work = 0 and enters the measured loop.
StartBenchmark(b) ==
    /\ phase[b] = "not_started"
    /\ \A m, n \in 1 .. Len(Benchmarks) :
         m < n /\ Benchmarks[n] = b => phase[Benchmarks[m]] = "stopped"
    /\ vehicles' = [vehicles EXCEPT ![b] = NewVehicles[b]]
    /\ total_work' = [total_work EXCEPT ![b] = Zero]
    /\ at' = LoopEntry(b, 0)
    /\ phase' = [phase EXCEPT ![b] =
                   IF LoopEntry(b, 0)[1] = "report" THEN "reporting"
                   ELSE "measuring"]
    /\ i' = 0
    /\ UNCHANGED <<iterations, counters, label, hist, last, candidate, verdict>>

\* vehicles[k]->accelerate(constants::ACCELERATION_VALUE), k = 1 for tesla
\* (vehicles[0]) and 2 for porsche (vehicles[1]).
Accelerate(b) ==
    /\ phase[b] = "measuring"
    /\ at[1] = "accelerate"
    /\ vehicles' = [vehicles EXCEPT
                      ![b][at[2]] = accelerate(@, ACCELERATION_VALUE)]
    /\ at' = <<"getWork", at[2]>>
    /\ hist' = [hist EXCEPT ![b].accelerate[at[2]] = @ + 1]
    /\ last' = <<b, at[2], "accelerate">>
    /\ UNCHANGED <<phase, i, iterations, total_work, counters, label,
                   candidate, verdict>>

\* total_work += vehicle.getWork()
AddWork(b) ==
    /\ phase[b] = "measuring"
    /\ at[1] = "getWork"
    /\ total_work' = [total_work EXCEPT
                        ![b] = DAdd(@, getWork(vehicles[b][at[2]]))]
    /\ at' = <<"brake", at[2]>>
    /\ hist' = [hist EXCEPT ![b].getWork[at[2]] = @ + 1]
    /\ last' = <<b, at[2], "getWork">>
    /\ UNCHANGED <<phase, i, iterations, vehicles, counters, label,
                   candidate, verdict>>

\* The faulty variant of the inner loop that leaves after its first repetition.
BrakeOnce(b) ==
    /\ phase[b] = "measuring"
    /\ at[1] = "brake"
    /\ vehicles' = [vehicles EXCEPT ![b][at[2]] = brake(@)]
    /\ hist' = [hist EXCEPT ![b].brake[at[2]] = @ + 1]
    /\ last' = <<b, at[2], "brake">>
    /\ IF at[2] = 1
       THEN at' = <<"accelerate", 2>> /\ i' = i
       ELSE i' = i + 1 /\ at' = <<"clobber", 0>>
    /\ UNCHANGED <<phase, iterations, total_work, counters, label,
                   candidate, verdict>>

\* vehicles[k]->brake(); after porsche's, ++i and the inner loop's test.
Brake(b) ==
    /\ phase[b] = "measuring"
    /\ at[1] = "brake"
    /\ vehicles' = [vehicles EXCEPT ![b][at[2]] = brake(@)]
    /\ hist' = [hist EXCEPT ![b].brake[at[2]] = @ + 1]
    /\ last' = <<b, at[2], "brake">>
    /\ IF at[2] = 1
       THEN at' = <<"accelerate", 2>> /\ i' = i
       ELSE /\ i' = i + 1
            /\ at' = IF i + 1 < INNER_LOOP_COUNT THEN <<"accelerate", 1>>
                     ELSE <<"clobber", 0>>
    /\ UNCHANGED <<phase, iterations, total_work, counters, label,
                   candidate, verdict>>

\* benchmark::ClobberMemory(), then the measured loop's next test.
Clobber(b) ==
    /\ phase[b] = "measuring"
    /\ at[1] = "clobber"
    /\ hist' = [hist EXCEPT ![b].clobber = @ + 1]
    /\ last' = <<b, 0, "clobber">>
    /\ iterations' = [iterations EXCEPT ![b] = @ + 1]
    /\ at' = LoopEntry(b, iterations[b] + 1)
    /\ i' = 0
    /\ phase' = [phase EXCEPT ![b] =
                   IF LoopEntry(b, iterations[b] + 1)[1] = "report"
                   THEN "reporting" ELSE "measuring"]
    /\ UNCHANGED <<vehicles, total_work, counters, label, candidate, verdict>>

\* std::to_string(double), the format "%f": "nan" for a NaN, else the sign,
\* the integer part (in two words: the first counts 10^4) and the first six
\* digits of the fraction.
to_string(d) ==
    IF d.nan THEN <<"nan">>
    ELSE LET negative == d.hi < 0
             mhi == IF ~negative THEN d.hi
                    ELSE IF d.lo = 0 THEN -d.hi ELSE -d.hi - 1
             mlo == IF ~negative \/ d.lo = 0 THEN d.lo ELSE Base - d.lo
         IN <<IF negative THEN "-" ELSE "", mhi, mlo \div Scale5,
              (mlo % Scale5) * 10>>

\* impl::reportStats(state, total_work), `done` being state.iterations().
\* 0.0 / 0 is NaN.
reportStats(done, total) ==
    LET avg == IF done = 0 THEN NaN ELSE DDiv(total, done)
    IN [counters |->
          [iterations |-> done,
           items_per_second |-> [value |-> done, flags |-> "kIsRate"],
           avg_work_per_iteration |-> avg],
        label |->
          <<"Total accumulated work (from calculations): ", to_string(total),
            " (avg per iter: ", to_string(avg), ")">>]

ReportStats(b) ==
    /\ phase[b] = "reporting"
    /\ at[1] = "report"
    /\ counters' = [counters EXCEPT
                      ![b] = reportStats(iterations[b], total_work[b]).counters]
    /\ label' = [label EXCEPT
                   ![b] = reportStats(iterations[b], total_work[b]).label]
    /\ hist' = [hist EXCEPT ![b].report = @ + 1]
    /\ last' = <<b, 0, "report">>
    /\ at' = <<"return", 0>>
    /\ UNCHANGED <<phase, i, iterations, vehicles, total_work, candidate,
                   verdict>>

\* The benchmark function returns.
Return(b) ==
    /\ phase[b] = "reporting"
    /\ at[1] = "return"
    /\ phase' = [phase EXCEPT ![b] = "stopped"]
    /\ at' = <<"none", 0>>
    /\ UNCHANGED <<i, iterations, vehicles, total_work, counters, label, hist,
                   last, candidate, verdict>>

Next ==
    \E b \in BenchmarkNames :
       \/ StartBenchmark(b)
       \/ Accelerate(b)
       \/ AddWork(b)
       \/ Brake(b)
       \/ Clobber(b)
       \/ ReportStats(b)
       \/ Return(b)

\* main: both benchmarks registered, then run.
Spec == Init /\ [][Next]_vars

----------------------------------------------------------------------------
(* The same runs, one step per measured iteration *)

\* The three statements of the inner loop for vehicles[k], on
\* run = [vehicles |-> <<tesla, porsche>>, total_work |-> the local]:
\* accelerate(ACCELERATION_VALUE); total_work += getWork(); brake().
VehicleTurn(run, k) ==
    CHOOSE after \in
      {[vehicles |-> [run.vehicles EXCEPT ![k] = brake(moving)],
        total_work |-> DAdd(run.total_work, getWork(moving))] :
         moving \in {accelerate(run.vehicles[k], ACCELERATION_VALUE)}} : TRUE

\* n repetitions of the inner loop: tesla's turn, then porsche's.  Each
\* intermediate state is bound as the one element of a set, and so evaluated
\* once.
RECURSIVE Repetitions(_, _)
Repetitions(run, n) ==
    IF n = 0 THEN run
    ELSE CHOOSE done \in
           {Repetitions(porsche, n - 1) :
              porsche \in {VehicleTurn(tesla, 2) :
                             tesla \in {VehicleTurn(run, 1)}}} : TRUE

\* One pass of `for (auto _ : state)`: the inner loop from i = 0 to
\* INNER_LOOP_COUNT, benchmark::ClobberMemory() and the loop's next test.
Iteration(b) ==
    /\ phase[b] = "measuring"
    /\ at = <<"accelerate", 1>>
    /\ i = 0
    /\ \E run \in {Repetitions([vehicles |-> vehicles[b],
                                 total_work |-> total_work[b]],
                                INNER_LOOP_COUNT)} :
          /\ vehicles' = [vehicles EXCEPT ![b] = run.vehicles]
          /\ total_work' = [total_work EXCEPT ![b] = run.total_work]
    /\ hist' = [hist EXCEPT
                  ![b].accelerate = <<@[1] + INNER_LOOP_COUNT,
                                      @[2] + INNER_LOOP_COUNT>>,
                  ![b].getWork = <<@[1] + INNER_LOOP_COUNT,
                                   @[2] + INNER_LOOP_COUNT>>,
                  ![b].brake = <<@[1] + INNER_LOOP_COUNT,
                                 @[2] + INNER_LOOP_COUNT>>,
                  ![b].clobber = @ + 1]
    /\ last' = <<b, 0, "clobber">>
    /\ iterations' = [iterations EXCEPT ![b] = @ + 1]
    /\ at' = LoopEntry(b, iterations[b] + 1)
    /\ i' = 0
    /\ phase' = [phase EXCEPT ![b] =
                   IF LoopEntry(b, iterations[b] + 1)[1] = "report"
                   THEN "reporting" ELSE "measuring"]
    /\ UNCHANGED <<counters, label, candidate, verdict>>

RunNext ==
    \E b \in BenchmarkNames :
       \/ StartBenchmark(b)
       \/ Iteration(b)
       \/ ReportStats(b)
       \/ Return(b)

RunSpec == Init /\ [][RunNext]_vars

\* The harness is single-threaded and runs without suspension: a step that
\* can be taken is taken.
FairRunSpec == RunSpec /\ WF_vars(RunNext)

----------------------------------------------------------------------------
(* Any sequence of accelerate(s) and brake() calls on the four vehicles *)

Accels == {ACCELERATION_VALUE, -ACCELERATION_VALUE}

Calls ==
    LET n(b) == hist[b].accelerate[1] + hist[b].accelerate[2]
                  + hist[b].brake[1] + hist[b].brake[2]
    IN n("ConceptBased") + n("Polymorphic")

\* The speed accelerate(s) gives the vehicle, for the bound MaxSpeed.
SpeedAfter(self, s) ==
    IF self.class \in {"PolyElectricCar", "PolyGasCar"}
    THEN self.speed + Mul5(s, getFriction(self))
    ELSE self.speed + s

CallAccelerate(b, k, s) ==
    /\ Calls < MaxCalls
    /\ SpeedAfter(vehicles[b][k], s) <= MaxSpeed * Scale5
    /\ vehicles' = [vehicles EXCEPT ![b][k] = accelerate(@, s)]
    /\ hist' = [hist EXCEPT ![b].accelerate[k] = @ + 1]
    /\ last' = <<b, k, "accelerate">>
    /\ UNCHANGED <<phase, at, i, iterations, total_work, counters, label,
                   candidate, verdict>>

CallBrake(b, k) ==
    /\ Calls < MaxCalls
    /\ vehicles' = [vehicles EXCEPT ![b][k] = brake(@)]
    /\ hist' = [hist EXCEPT ![b].brake[k] = @ + 1]
    /\ last' = <<b, k, "brake">>
    /\ UNCHANGED <<phase, at, i, iterations, total_work, counters, label,
                   candidate, verdict>>

OpsNext ==
    \E b \in BenchmarkNames, k \in 1 .. 2 :
       \/ \E s \in Accels : CallAccelerate(b, k, s)
       \/ CallBrake(b, k)

OpsSpec == Init /\ [][OpsNext]_vars

----------------------------------------------------------------------------
(* A type offered to the concepts, as static_assert(SportsCar<T>) does *)

ConceptInit ==
    /\ Init!1 /\ Init!2 /\ Init!3 /\ Init!4 /\ Init!5 /\ Init!6 /\ Init!7
    /\ Init!8 /\ Init!9 /\ Init!10
    /\ candidate \in Types
    /\ verdict = [c \in {"Acceleratable", "SportsCar"} |-> "unchecked"]

CheckAcceleratable ==
    /\ verdict["Acceleratable"] = "unchecked"
    /\ verdict' = [verdict EXCEPT !["Acceleratable"] =
                     IF Acceleratable(candidate) THEN "satisfied" ELSE "error"]
    /\ UNCHANGED <<phase, at, i, iterations, vehicles, total_work, counters,
                   label, hist, last, candidate>>

CheckSportsCar ==
    /\ verdict["SportsCar"] = "unchecked"
    /\ verdict' = [verdict EXCEPT !["SportsCar"] =
                     IF SportsCar(candidate) THEN "satisfied" ELSE "error"]
    /\ UNCHANGED <<phase, at, i, iterations, vehicles, total_work, counters,
                   label, hist, last, candidate>>

ConceptNext == CheckAcceleratable \/ CheckSportsCar

ConceptSpec == ConceptInit /\ [][ConceptNext]_vars

----------------------------------------------------------------------------
(* Properties of the vehicles under any sequence of calls (OpsSpec) *)

\* C1: for PolyElectricCar and PolyGasCar, in every state that a sequence of
\* accelerate(s) and brake() calls reaches, brake() followed at once by
\* getCurrentSpeed() returns exactly 0; and so it has whenever the last call
\* made was a brake().
C1_BrakeThenSpeedIsZero ==
    \A k \in 1 .. 2 :
       /\ getCurrentSpeed(brake(vehicles["Polymorphic"][k])) = 0
       /\ last = <<"Polymorphic", k, "brake">>
            => getCurrentSpeed(vehicles["Polymorphic"][k]) = 0

\* PolyGasCar has been accelerated twice, to 95.0 (the speed its buffer was
\* last filled at), and then braked.
C1_BrakedWhileMoving ==
    /\ last = <<"Polymorphic", 2, "brake">>
    /\ hist["Polymorphic"].accelerate[2] = 2
    /\ hist["Polymorphic"].brake[2] = 1
    /\ vehicles["Polymorphic"][2].calculations.fill
         = <<2 * Mul5(ACCELERATION_VALUE, GAS_FRICTION)>>
    /\ getCurrentSpeed(vehicles["Polymorphic"][2]) = 0

\* C2: a brake() of PolyElectricCar adds exactly 0.85 times the speed held
\* before the call to work and sets speed to zero; a brake() of PolyGasCar
\* sets speed to zero and leaves work as it was; neither changes the
\* calculations buffer.
C2_BrakeEffect ==
    [][\A k \in 1 .. 2 :
         hist'["Polymorphic"].brake[k] # hist["Polymorphic"].brake[k] =>
           LET before == vehicles["Polymorphic"][k]
               after == vehicles'["Polymorphic"][k]
           IN /\ ELECTRIC_FRICTION * 100 = 85 * Scale5
              /\ after.speed = 0
              /\ after.calculations = before.calculations
              /\ after.work =
                   IF k = 1
                   THEN DAdd(before.work, FromFix((before.speed * 85) \div 100))
                   ELSE before.work]_vars

\* PolyElectricCar has been accelerated once, to 42.5, and braked: its work is
\* what the kernel added at 42.5 plus 42.5 * 0.85 = 36.125.
C2_ElectricBrakeRecovered ==
    /\ last = <<"Polymorphic", 1, "brake">>
    /\ hist["Polymorphic"].accelerate[1] = 1
    /\ hist["Polymorphic"].brake[1] = 1
    /\ vehicles["Polymorphic"][1].calculations.fill = <<4250000>>
    /\ vehicles["Polymorphic"][1].speed = 0
    /\ vehicles["Polymorphic"][1].work
         = DAdd(FromFix(KernelTable[4250000]), FromFix(3612500))

\* The contents a calculations buffer can have when a call begins.
Buffers ==
    {NewBuffer}
      \cup {[NewBuffer EXCEPT !.fill = <<v>>] : v \in KernelSpeeds \cup {0}}

\* n calls accelerate(s) on the vehicle v.
RECURSIVE RepeatAccelerate(_, _, _)
RepeatAccelerate(v, s, n) ==
    IF n = 0 THEN v ELSE accelerate(RepeatAccelerate(v, s, n - 1), s)

\* C5: accelerate(s) of ElectricSportsCar and GasSportsCar is a function of
\* speed, work and s alone.  Whatever earlier calls left in the calculations
\* buffer, the work after the call is the same; and a vehicle that n calls
\* accelerate(50.0) have brought from construction to speed n * 50.0 holds the
\* work a second, freshly constructed copy holds after the same n calls,
\* whatever calls on other vehicles came in between.
C5_AccelerateDeterministic ==
    \A k \in 1 .. 2 :
       LET v == vehicles["ConceptBased"][k]
       IN /\ \A s \in Accels :
               SpeedAfter(v, s) <= MaxSpeed * Scale5 =>
                 \A buf \in Buffers :
                    getWork(accelerate([v EXCEPT !.calculations = buf], s))
                      = getWork(accelerate(v, s))
          /\ \A n \in 1 .. MaxCalls :
               (/\ hist["ConceptBased"].accelerate[k] = n
                /\ hist["ConceptBased"].brake[k] = 0
                /\ v.speed = n * ACCELERATION_VALUE)
               => getWork(v)
                    = getWork(RepeatAccelerate(NewVehicles["ConceptBased"][k],
                                               ACCELERATION_VALUE, n))

\* ElectricSportsCar after accelerate(50.0) twice: the second call ran on the
\* buffer the first had filled, and work is the sum of what the kernel adds at
\* 50.0 and at 100.0.
C5_SecondCallOnUsedBuffer ==
    /\ hist["ConceptBased"].accelerate[1] = 2
    /\ hist["ConceptBased"].brake[1] = 0
    /\ vehicles["ConceptBased"][1].speed = 2 * ACCELERATION_VALUE
    /\ vehicles["ConceptBased"][1].calculations.fill = <<2 * ACCELERATION_VALUE>>
    /\ getWork(vehicles["ConceptBased"][1])
         = DAdd(FromFix(KernelTable[ACCELERATION_VALUE]),
                FromFix(KernelTable[2 * ACCELERATION_VALUE]))

\* What the calls read and write of a generic-dispatch vehicle.
SameState(e, g) ==
    /\ e.speed = g.speed
    /\ getWork(e) = getWork(g)
    /\ e.calculations = g.calculations

\* The GasSportsCar, and the ElectricSportsCar, in the state of the vehicle v.
AsGas(v) ==
    [GasSportsCar("Porsche", "911") EXCEPT
       !.speed = v.speed, !.work = v.work, !.calculations = v.calculations]

AsElectric(v) ==
    [ElectricSportsCar("Tesla", "Model S") EXCEPT
       !.speed = v.speed, !.work = v.work, !.calculations = v.calculations]

\* C9: ElectricSportsCar and GasSportsCar are constructed in the same state,
\* and from every state either of them reaches, the same call takes both to
\* the same state again (so they hold the same speed and the same work after
\* every call of a common sequence); brake() sets speed to zero and leaves
\* work unchanged, accelerate(s) makes speed exactly speed + s.
C9_GenericVariantsAgree ==
    /\ SameState(ElectricSportsCar("Tesla", "Model S"),
                 GasSportsCar("Porsche", "911"))
    /\ \A k \in 1 .. 2 :
         LET e == AsElectric(vehicles["ConceptBased"][k])
             g == AsGas(vehicles["ConceptBased"][k])
         IN /\ SameState(ElectricSportsCar_brake(e), GasSportsCar_brake(g))
            /\ ElectricSportsCar_brake(e).speed = 0
            /\ GasSportsCar_brake(g).speed = 0
            /\ getWork(ElectricSportsCar_brake(e)) = getWork(e)
            /\ getWork(GasSportsCar_brake(g)) = getWork(g)
            /\ \A s \in Accels :
                 SpeedAfter(e, s) <= MaxSpeed * Scale5 =>
                   /\ SameState(ElectricSportsCar_accelerate(e, s),
                                GasSportsCar_accelerate(g, s))
                   /\ ElectricSportsCar_accelerate(e, s).speed = e.speed + s
                   /\ GasSportsCar_accelerate(g, s).speed = g.speed + s
    /\ \A k \in 1 .. 2 :
         last = <<"ConceptBased", k, "brake">>
           => vehicles["ConceptBased"][k].speed = 0

\* Both generic-dispatch vehicles have been accelerated once and braked once,
\* and hold the same speed 0 and the same positive work.
C9_SameCallsSameState ==
    /\ hist["ConceptBased"].accelerate = <<1, 1>>
    /\ hist["ConceptBased"].brake = <<1, 1>>
    /\ SameState(vehicles["ConceptBased"][1], vehicles["ConceptBased"][2])
    /\ vehicles["ConceptBased"][1].speed = 0
    /\ DLess(Zero, getWork(vehicles["ConceptBased"][1]))

----------------------------------------------------------------------------
(* Properties of the concepts (ConceptSpec) *)

\* The members Acceleratable names, and those SportsCar adds.
AcceleratableMembers == {"accelerate", "brake", "getWork"}

SportsCarMembers == AcceleratableMembers \cup {"getBrand", "getModel"}

\* C6: Acceleratable and SportsCar hold of ElectricSportsCar and of
\* GasSportsCar; a type that lacks one of accelerate(double) -> void,
\* brake() -> void, getWork() -> double is rejected by Acceleratable, hence by
\* SportsCar; SportsCar also rejects a type that lacks getBrand() or getModel()
\* returning std::string; a type either concept accepts has every member the
\* concept names, with the type named.
C6_ConceptAcceptsAndRejects ==
    /\ Acceleratable(ElectricSportsCarType) /\ SportsCar(ElectricSportsCarType)
    /\ Acceleratable(GasSportsCarType) /\ SportsCar(GasSportsCarType)
    /\ candidate \in {ElectricSportsCarType, GasSportsCarType}
         => \A c \in DOMAIN verdict : verdict[c] # "error"
    /\ (\E m \in AcceleratableMembers : candidate[m] = "absent")
         => \A c \in DOMAIN verdict : verdict[c] # "satisfied"
    /\ (\E m \in SportsCarMembers : candidate[m] = "absent")
         => verdict["SportsCar"] # "satisfied"
    /\ verdict["Acceleratable"] = "satisfied"
         => /\ candidate.accelerate = "void"
            /\ candidate.accelerate_arg = "double"
            /\ candidate.brake = "void"
            /\ candidate.getWork = "double"
    /\ verdict["SportsCar"] = "satisfied"
         => /\ Acceleratable(candidate)
            /\ candidate.getBrand = "std::string"
            /\ candidate.getModel = "std::string"

\* A type that has everything but getWork() has been offered to both concepts,
\* and both have rejected it.
C6_MissingGetWorkRejected ==
    /\ candidate = [ElectricSportsCarType EXCEPT !.getWork = "absent"]
    /\ verdict["Acceleratable"] = "error"
    /\ verdict["SportsCar"] = "error"

----------------------------------------------------------------------------
(* Properties of the benchmark runs (Spec, RunSpec, FairRunSpec) *)

\* A step that is the call `op` on vehicle k of benchmark b.
IsCall(b, k, op) == hist'[b][op][k] = hist[b][op][k] + 1

\* C3, as the specification states it: in a benchmark run no accelerate() and
\* no brake() ever leaves a vehicle's work smaller than it was.
C3_WorkNeverDecreases ==
    [][\A b \in BenchmarkNames, k \in 1 .. 2 :
         ~DLess(getWork(vehicles'[b][k]), getWork(vehicles[b][k]))]_vars

\* C3, as the program behaves: no brake() makes work smaller, and the only
\* brake() that changes work is PolyElectricCar's, which adds to it; no
\* accelerate() of ElectricSportsCar, GasSportsCar (kernel speed 50.0) or
\* PolyElectricCar (42.5) makes work smaller; every accelerate() of PolyGasCar
\* (47.5) makes work smaller, the kernel's sum being negative there.
C3_WorkChanges ==
    [][\A b \in BenchmarkNames, k \in 1 .. 2 :
         LET before == getWork(vehicles[b][k])
             after == getWork(vehicles'[b][k])
             class == vehicles[b][k].class
         IN /\ IsCall(b, k, "brake") =>
                 IF class = "PolyElectricCar" THEN DLess(before, after)
                 ELSE after = before
            /\ IsCall(b, k, "accelerate") =>
                 IF class = "PolyGasCar" THEN DLess(after, before)
                 ELSE DLess(before, after)
            /\ ~IsCall(b, k, "brake") /\ ~IsCall(b, k, "accelerate")
                 => after = before]_vars

\* ElectricSportsCar has been accelerated and braked ten times in the first
\* iteration of ConceptBased and holds positive work.
C3_WorkGrewOverRepetitions ==
    /\ last = <<"ConceptBased", 1, "brake">>
    /\ hist["ConceptBased"].accelerate[1] = INNER_LOOP_COUNT
    /\ hist["ConceptBased"].brake[1] = INNER_LOOP_COUNT
    /\ DLess(FromFix(KernelTable[ACCELERATION_VALUE]),
             getWork(vehicles["ConceptBased"][1]))

\* C4: a benchmark that has reported has run exactly 10000 iterations of 10
\* repetitions, its counter iterations is 10000, and its counter
\* avg_work_per_iteration is total_work / 10000, finite and not negative;
\* total_work is finite and not negative all along.
C4_ReportedAverage ==
    \A b \in BenchmarkNames :
       /\ IsFinite(total_work[b])
       /\ ~DLess(total_work[b], Zero)
       /\ hist[b].report > 0 =>
            /\ BENCHMARK_ITERATIONS = 10000 /\ INNER_LOOP_COUNT = 10
            /\ iterations[b] = 10000
            /\ hist[b].accelerate = <<100000, 100000>>
            /\ counters[b].iterations = 10000
            /\ counters[b].avg_work_per_iteration = DDiv(total_work[b], 10000)
            /\ IsFinite(counters[b].avg_work_per_iteration)
            /\ ~DLess(counters[b].avg_work_per_iteration, Zero)

\* ConceptBased has reported a positive total and a positive average.
C4_ConceptBasedReported ==
    /\ hist["ConceptBased"].report = 1
    /\ counters["ConceptBased"].iterations = BENCHMARK_ITERATIONS
    /\ DLess(Zero, total_work["ConceptBased"])
    /\ DLess(Zero, counters["ConceptBased"].avg_work_per_iteration)

\* The place of a statement in a repetition: 1 .. 6 for accelerate, getWork,
\* brake of tesla and then of porsche.
Position(a) ==
    CASE a = <<"accelerate", 1>> -> 1
      [] a = <<"getWork", 1>> -> 2
      [] a = <<"brake", 1>> -> 3
      [] a = <<"accelerate", 2>> -> 4
      [] a = <<"getWork", 2>> -> 5
      [] a = <<"brake", 2>> -> 6
      [] OTHER -> 1

\* How often benchmark b has executed statement n of the repetition, counted
\* from where it stands.
Done(b, n) ==
    IF phase[b] = "measuring"
    THEN INNER_LOOP_COUNT * iterations[b] + i
           + (IF Position(at) > n THEN 1 ELSE 0)
    ELSE INNER_LOOP_COUNT * iterations[b]

\* The calls that may follow the call `prev` of the same benchmark
\* (<<>>: the benchmark has made none).
Following(prev) ==
    CASE prev = <<>> -> {<<1, "accelerate">>}
      [] prev = <<0, "clobber">> -> {<<1, "accelerate">>, <<0, "report">>}
      [] prev = <<0, "report">> -> {}
      [] prev[2] = "accelerate" -> {<<prev[1], "getWork">>}
      [] prev[2] = "getWork" -> {<<prev[1], "brake">>}
      [] prev = <<1, "brake">> -> {<<2, "accelerate">>}
      [] OTHER -> {<<1, "accelerate">>, <<0, "clobber">>}

\* The speed the driver's accelerate(50.0) gives a standing vehicle.
KernelSpeed(b, k) ==
    IF b = "ConceptBased" THEN 5000000
    ELSE IF k = 1 THEN 4250000 ELSE 4750000

\* C7: in both benchmarks each vehicle has been accelerated, read and braked
\* 10 times per completed iteration plus once per completed repetition of the
\* current one, the barrier has run once per completed iteration, and it runs
\* when the 10 repetitions are complete; the calls follow one another as
\* accelerate, getWork, brake of the Electric vehicle, then of the Gas vehicle;
\* the accelerate is accelerate(50.0) and the read adds that vehicle's
\* getWork() to total_work.
C7_IterationSequence ==
    /\ [](\A b \in BenchmarkNames :
            /\ hist[b].accelerate = <<Done(b, 1), Done(b, 4)>>
            /\ hist[b].getWork = <<Done(b, 2), Done(b, 5)>>
            /\ hist[b].brake = <<Done(b, 3), Done(b, 6)>>
            /\ hist[b].clobber = iterations[b]
            /\ phase[b] = "measuring" =>
                 IF at[1] = "clobber" THEN i = INNER_LOOP_COUNT
                 ELSE i \in 0 .. INNER_LOOP_COUNT - 1)
    /\ [][\A b \in BenchmarkNames :
            hist'[b] # hist[b] =>
              LET prev == IF last = <<>> \/ last[1] # b THEN <<>>
                          ELSE <<last[2], last[3]>>
                  k == last'[2]
              IN /\ last'[1] = b
                 /\ <<last'[2], last'[3]>> \in Following(prev)
                 /\ last'[3] = "accelerate" =>
                      /\ ACCELERATION_VALUE = 50 * Scale5
                      /\ vehicles'[b][k].speed
                           = vehicles[b][k].speed + KernelSpeed(b, k)
                 /\ last'[3] = "getWork" =>
                      /\ total_work'[b]
                           = DAdd(total_work[b], getWork(vehicles[b][k]))
                      /\ vehicles' = vehicles
                 /\ last'[3] = "clobber" =>
                      /\ i = INNER_LOOP_COUNT
                      /\ vehicles' = vehicles
                      /\ total_work' = total_work]_vars

\* ConceptBased has just run the barrier of its first iteration, after ten
\* calls of each kind on each vehicle.
C7_FirstIterationDone ==
    /\ last = <<"ConceptBased", 0, "clobber">>
    /\ hist["ConceptBased"].clobber = 1
    /\ hist["ConceptBased"].accelerate = <<10, 10>>
    /\ hist["ConceptBased"].getWork = <<10, 10>>
    /\ hist["ConceptBased"].brake = <<10, 10>>

\* C8: a benchmark's phase changes only from not_started to measuring, from
\* measuring to reporting and from reporting to stopped; every benchmark is
\* eventually stopped; reportStats runs once per benchmark, in the reporting
\* phase, when all 10000 iterations are complete; once a benchmark is
\* reporting or stopped, no accelerate, getWork or brake of it happens and
\* its vehicles and total_work stay as they are.
C8_StateMachine ==
    /\ [][\A b \in BenchmarkNames :
            /\ \/ phase'[b] = phase[b]
               \/ phase[b] = "not_started" /\ phase'[b] = "measuring"
               \/ phase[b] = "measuring" /\ phase'[b] = "reporting"
               \/ phase[b] = "reporting" /\ phase'[b] = "stopped"
            /\ phase[b] \in {"reporting", "stopped"} =>
                 /\ vehicles'[b] = vehicles[b]
                 /\ total_work'[b] = total_work[b]
                 /\ hist'[b].accelerate = hist[b].accelerate
                 /\ hist'[b].getWork = hist[b].getWork
                 /\ hist'[b].brake = hist[b].brake
                 /\ hist'[b].clobber = hist[b].clobber
            /\ hist'[b].report # hist[b].report =>
                 /\ hist[b].report = 0
                 /\ hist'[b].report = 1
                 /\ phase[b] = "reporting"
                 /\ iterations[b] = BENCHMARK_ITERATIONS
                 /\ hist[b].clobber = BENCHMARK_ITERATIONS]_vars
    /\ [](\A b \in BenchmarkNames :
            /\ phase[b] = "stopped" => hist[b].report = 1
            /\ phase[b] \in {"not_started", "measuring"} => hist[b].report = 0
            /\ phase[b] = "measuring" => iterations[b] < BENCHMARK_ITERATIONS)
    /\ \A b \in BenchmarkNames : <>[](phase[b] = "stopped")

\* ConceptBased has stopped after its 10000 iterations and its one report.
C8_ConceptBasedStopped ==
    /\ phase["ConceptBased"] = "stopped"
    /\ iterations["ConceptBased"] = BENCHMARK_ITERATIONS
    /\ hist["ConceptBased"].report = 1

\* C10: in both benchmarks a vehicle's speed is 0 whenever its accelerate()
\* is about to be called, and between that call and the brake() that follows
\* its speed is the one speed the kernel has just run at: 50.0 for
\* ElectricSportsCar and GasSportsCar, 42.5 = 50.0 * 0.85 for PolyElectricCar,
\* 47.5 = 50.0 * 0.95 for PolyGasCar; no vehicle ever has another speed, and
\* no buffer is ever filled at another.
C10_KernelSpeedConstant ==
    \A b \in BenchmarkNames, k \in 1 .. 2 :
       LET v == vehicles[b][k]
       IN /\ KernelSpeed(b, k)
               = IF b = "ConceptBased" THEN ACCELERATION_VALUE
                 ELSE (ACCELERATION_VALUE \div 100)
                        * (IF k = 1 THEN 85 ELSE 95)
          /\ v.speed \in {0, KernelSpeed(b, k)}
          /\ v.calculations.fill \in {<<>>, <<KernelSpeed(b, k)>>}
          /\ phase[b] = "measuring" /\ at = <<"accelerate", k>> => v.speed = 0
          /\ phase[b] = "measuring" /\ at[1] \in {"getWork", "brake"}
               /\ at[2] = k
               => /\ v.speed = KernelSpeed(b, k)
                  /\ v.calculations.fill = <<KernelSpeed(b, k)>>
          /\ phase[b] # "measuring" => v.speed = 0

\* GasSportsCar has just been accelerated in the second repetition of the
\* second iteration of ConceptBased, and its speed is 50.0, not more.
C10_SecondIterationSameSpeed ==
    /\ last = <<"ConceptBased", 2, "accelerate">>
    /\ iterations["ConceptBased"] = 1
    /\ i = 1
    /\ vehicles["ConceptBased"][2].speed = ACCELERATION_VALUE
    /\ hist["ConceptBased"].accelerate[2] = INNER_LOOP_COUNT + 2

====
